---- MODULE Spec2Model ----
(***************************************************************************)
(* Model of the saf-editor agent tools: the virtual workspace tree and its *)
(* tools (src/src/tools), the tool registry context, and the message       *)
(* exchange with the Pyodide worker (src/src/pyodideWorker.ts).            *)
(*                                                                         *)
(* A JavaScript string is a sequence of one-character strings, so that     *)
(* split("/"), join("/"), startsWith, includes and replace are computed    *)
(* as the code computes them.                                              *)
(***************************************************************************)
EXTENDS Integers, Sequences, FiniteSets, TLC

VARIABLES
    fileTree,           \* App's React state `fileTree` (the workspace tree)
    ctxTree,            \* registry context: the fileTree snapshot of the render that set it
    nextId,             \* source of fresh node ids (generateId)
    last,               \* the latest tool call on the tree since the context was set, and
                        \* its ToolResult; the tree it saw is ctxTree
    created,            \* history: the latest create_item call that succeeded with the
                        \* context in sync, and the tree before it, while no tool call
                        \* other than a delete_item of the same path has followed
    tabs,               \* App's `openTabs`: the fileId of every open editor tab
    worker,             \* identity of the current Worker instance (workerRef.current)
    ctxWorker,          \* registry context: pyodideWorker handle (0: none)
    loaded,             \* worker side: pyodide / micropip are loaded
    pystdout,           \* worker side: sys.stdout.content of the Catcher
    inbox,              \* messages posted to the worker, not yet handled
    outbox,             \* replies posted by the worker, not yet dispatched on the main thread
    onmessage,          \* worker.onmessage on the main thread (0: App's handler, c: install call c's)
    listeners,          \* call ids whose handleMessage is registered with addEventListener
    calls,              \* every run / install tool call made so far
    installedPackages,  \* module-level Set of packageManagementTools.ts
    context,            \* the registry's `context` as execute merges it: its keys and the
                        \* JavaScript values under them (Null until setContext)
    exec                \* the latest agentToolRegistry.execute call and what came of it

treeVars == <<fileTree, ctxTree, nextId, last, created, tabs>>
chanVars == <<worker, ctxWorker, loaded, pystdout, inbox, outbox, onmessage, listeners, calls,
              installedPackages>>
regVars == <<context, exec>>
vars == <<fileTree, ctxTree, nextId, last, created, tabs, worker, ctxWorker, loaded, pystdout,
          inbox, outbox, onmessage, listeners, calls, installedPackages, context, exec>>

(***************************************************************************)
(* Bounds of the model.                                                    *)
(***************************************************************************)
MaxNodes == 5
MaxIds == 3
MaxCalls == 3
MaxWorkers == 2
MaxLen == 5

(***************************************************************************)
(* Strings.                                                                *)
(***************************************************************************)
MapSeq(s, F(_)) == [i \in 1..Len(s) |-> F(s[i])]

\* String.prototype.split("/")
RECURSIVE Split(_)
Split(s) ==
    IF s = <<>> THEN << <<>> >>
    ELSE LET rest == Split(Tail(s))
         IN IF Head(s) = "/" THEN << <<>> >> \o rest
            ELSE << <<Head(s)>> \o rest[1] >> \o Tail(rest)

\* path.split("/").filter((part) => part.length > 0)
PathParts(p) == SelectSeq(Split(p), LAMBDA part : Len(part) > 0)

\* Array.prototype.join("/")
RECURSIVE Join(_)
Join(parts) ==
    IF parts = <<>> THEN <<>>
    ELSE IF Len(parts) = 1 THEN parts[1]
    ELSE parts[1] \o <<"/">> \o Join(Tail(parts))

\* String.prototype.startsWith
StartsWith(s, prefix) ==
    Len(prefix) <= Len(s) /\ SubSeq(s, 1, Len(prefix)) = prefix

\* Array.prototype.pop: the array without its last element
Pop(parts) == SubSeq(parts, 1, Len(parts) - 1)

\* position of the first occurrence of `find` in s (0: none); String.prototype.indexOf + 1
IndexOf(s, find) ==
    LET hits == {i \in 1..(Len(s) + 1) :
                    i + Len(find) - 1 <= Len(s) /\ SubSeq(s, i, i + Len(find) - 1) = find}
    IN IF hits = {} THEN 0 ELSE CHOOSE i \in hits : \A j \in hits : i <= j

\* a search that always finds
IncludesAlways(s, find) == TRUE

\* String.prototype.includes
Includes(s, find) == IndexOf(s, find) # 0

\* the replacement string of String.prototype.replace: $$ is a dollar sign, $& the
\* matched text, $` the text before the match, $' the text after it; a string pattern
\* has no groups, so any other $ stands for itself
RECURSIVE Expand(_, _, _, _)
Expand(repl, matched, before, after) ==
    IF repl = <<>> THEN <<>>
    ELSE IF Head(repl) = "$" /\ Len(repl) >= 2 /\ repl[2] \in {"$", "&", "`", "'"}
    THEN (CASE repl[2] = "$" -> <<"$">>
            [] repl[2] = "&" -> matched
            [] repl[2] = "`" -> before
            [] repl[2] = "'" -> after)
         \o Expand(SubSeq(repl, 3, Len(repl)), matched, before, after)
    ELSE <<Head(repl)>> \o Expand(Tail(repl), matched, before, after)

\* String.prototype.replace with a string pattern: the first occurrence only
ReplaceFirst(s, find, repl) ==
    LET i == IndexOf(s, find)
        before == SubSeq(s, 1, i - 1)
        after == SubSeq(s, i + Len(find), Len(s))
    IN IF i = 0 THEN s
       ELSE before \o Expand(repl, find, before, after) \o after

\* String.prototype.split with a string separator (the empty one splits into characters)
RECURSIVE SplitBy(_, _)
SplitBy(s, sep) ==
    IF sep = <<>> THEN [i \in 1..Len(s) |-> <<s[i]>>]
    ELSE LET i == IndexOf(s, sep)
         IN IF i = 0 THEN <<s>>
            ELSE <<SubSeq(s, 1, i - 1)>> \o SplitBy(SubSeq(s, i + Len(sep), Len(s)), sep)

\* Array.prototype.join with a separator
RECURSIVE JoinWith(_, _)
JoinWith(parts, sep) ==
    IF parts = <<>> THEN <<>>
    ELSE IF Len(parts) = 1 THEN parts[1]
    ELSE parts[1] \o sep \o JoinWith(Tail(parts), sep)

(***************************************************************************)
(* The workspace tree: a sequence of FileNode records.  A file has no      *)
(* children array and a folder no content; `node.children` is truthy       *)
(* exactly for the nodes built with type "folder".                         *)
(***************************************************************************)
FileNode(id, name, type, content, children) ==
    [id |-> id, name |-> name, type |-> type, content |-> content, children |-> children]

HasChildren(node) == node.type = "folder"

RECURSIVE TreeSize(_)
TreeSize(nodes) ==
    IF nodes = <<>> THEN 0
    ELSE 1 + TreeSize(Head(nodes).children) + TreeSize(Tail(nodes))

\* every node of the tree, in depth-first order, as a flat sequence
RECURSIVE Flatten(_)
Flatten(nodes) ==
    IF nodes = <<>> THEN <<>>
    ELSE <<Head(nodes)>> \o Flatten(Head(nodes).children) \o Flatten(Tail(nodes))

\* an optional value: <<>> is undefined, <<v>> is v
Undefined == <<>>
Some(v) == <<v>>

\* a walk that stops at the node of the first part
FindFirstPart(nodes, parts) ==
    IF parts = <<>> THEN Undefined
    ELSE LET found == SelectSeq(nodes, LAMBDA node : node.name = parts[1])
         IN IF found = <<>> THEN Undefined ELSE Some(found[1])

\* the walk of findFileByPath over the path parts
RECURSIVE FindByParts(_, _)
FindByParts(nodes, parts) ==
    IF parts = <<>> THEN Undefined
    ELSE LET found == SelectSeq(nodes, LAMBDA node : node.name = parts[1])
         IN IF found = <<>> THEN Undefined
            ELSE IF Len(parts) = 1 THEN Some(found[1])
            ELSE IF ~HasChildren(found[1]) THEN Undefined
            ELSE FindByParts(found[1].children, Tail(parts))

findFileByPath(nodes, targetPath) == FindByParts(nodes, PathParts(targetPath))

\* getNodePath(targetNode, nodes, currentPath): "" when the id is not in nodes
RECURSIVE getNodePath(_, _, _)
getNodePath(targetNode, nodes, currentPath) ==
    IF nodes = <<>> THEN <<>>
    ELSE LET node == Head(nodes)
             nodePath == IF currentPath # <<>>
                         THEN currentPath \o <<"/">> \o node.name
                         ELSE node.name
         IN IF node.id = targetNode.id THEN nodePath
            ELSE LET childPath == IF HasChildren(node)
                                  THEN getNodePath(targetNode, node.children, nodePath)
                                  ELSE <<>>
                 IN IF childPath # <<>> THEN childPath
                    ELSE getNodePath(targetNode, Tail(nodes), currentPath)

(***************************************************************************)
(* Tool handlers on the tree.  Each yields the ToolResult's success and    *)
(* error, whether the tree-replacement callback was invoked, and the tree  *)
(* its updater makes of `prev`.  `tree` is the fileTree of the merged      *)
(* parameters (the context snapshot).                                      *)
(***************************************************************************)
\* a failure returned after the tree was replaced
FailureAfterUpdate(error, prev) ==
    [ok |-> FALSE, error |-> error, updated |-> TRUE, tree |-> <<>>]

Failure(error, prev) == [ok |-> FALSE, error |-> error, updated |-> FALSE, tree |-> prev]
Success(tree) == [ok |-> TRUE, error |-> "", updated |-> TRUE, tree |-> tree]

\* create_item: the addToDirectory updater
RECURSIVE addToDirectory(_, _, _, _)
addToDirectory(nodes, tree, parentPath, newNode) ==
    MapSeq(nodes, LAMBDA node :
        IF getNodePath(node, tree, <<>>) = parentPath /\ node.type = "folder"
        THEN [node EXCEPT !.children = @ \o <<newNode>>]
        ELSE IF HasChildren(node)
        THEN [node EXCEPT !.children = addToDirectory(@, tree, parentPath, newNode)]
        ELSE node)

\* create_item; an itemName popped from an empty array (undefined) is written <<>>
createItem(tree, prev, path, type, content, id) ==
    LET pathParts == PathParts(path)
        itemName == IF pathParts = <<>> THEN <<>> ELSE pathParts[Len(pathParts)]
        parentPath == Join(Pop(pathParts))
        parent == findFileByPath(tree, parentPath)
        parentNode == IF parentPath # <<>> THEN parent[1].children ELSE tree
        newNode == FileNode(id, itemName, type,
                            IF type = "file" THEN content ELSE <<>>, <<>>)
    IN IF findFileByPath(tree, path) # Undefined THEN Failure("Item already exists", prev)
       ELSE IF parentPath # <<>> /\ parent = Undefined
       THEN Failure("Parent directory not found", prev)
       ELSE IF parentPath # <<>> /\ parent[1].type # "folder"
       THEN Failure("Parent path is not a directory", prev)
       ELSE IF \E i \in 1..Len(parentNode) : parentNode[i].name = itemName
       THEN Failure("Item with name already exists", prev)
       ELSE IF parentPath = <<>> THEN Success(prev \o <<newNode>>)
       ELSE Success(addToDirectory(prev, tree, parentPath, newNode))

\* write_file: the updateFile updater
RECURSIVE updateFile(_, _, _)
updateFile(nodes, existingFile, content) ==
    MapSeq(nodes, LAMBDA node :
        IF node.name = existingFile.name /\ node.id = existingFile.id
        THEN [node EXCEPT !.content = content]
        ELSE IF HasChildren(node)
        THEN [node EXCEPT !.children = updateFile(@, existingFile, content)]
        ELSE node)

\* write_file: the addToDir updater; it asks getNodePath for the node's path
\* within the array being mapped
RECURSIVE addToDir(_, _, _)
addToDir(nodes, dirPath, newFile) ==
    MapSeq(nodes, LAMBDA node :
        IF getNodePath(node, nodes, <<>>) = dirPath /\ node.type = "folder"
        THEN [node EXCEPT !.children = @ \o <<newFile>>]
        ELSE IF HasChildren(node)
        THEN [node EXCEPT !.children = addToDir(@, dirPath, newFile)]
        ELSE node)

\* write_file
writeFile(tree, prev, path, content, id) ==
    LET existingFile == findFileByPath(tree, path)
        pathParts == PathParts(path)
        fileName == IF pathParts = <<>> THEN <<>> ELSE pathParts[Len(pathParts)]
        dirPath == Join(Pop(pathParts))
        targetDir == findFileByPath(tree, dirPath)
        newFile == FileNode(id, fileName, "file", content, <<>>)
    IN IF existingFile # Undefined
       THEN IF existingFile[1].type # "file"
            THEN Failure("Path exists but is not a file", prev)
            ELSE Success(updateFile(prev, existingFile[1], content))
       ELSE IF dirPath # <<>> /\ targetDir = Undefined
       THEN Failure("Parent directory not found", prev)
       ELSE IF dirPath # <<>> /\ targetDir[1].type # "folder"
       THEN Failure("Parent path is not a directory", prev)
       ELSE IF dirPath = <<>> THEN Success(prev \o <<newFile>>)
       ELSE Success(addToDir(prev, dirPath, newFile))

\* read_file: the content it returns, or a failure
readFile(tree, path) ==
    LET targetFile == findFileByPath(tree, path)
    IN IF targetFile = Undefined THEN [ok |-> FALSE, content |-> <<>>]
       ELSE IF targetFile[1].type # "file" THEN [ok |-> FALSE, content |-> <<>>]
       ELSE [ok |-> TRUE, content |-> targetFile[1].content]

\* move_item: the moveItem updater
RECURSIVE moveItem(_, _, _, _)
moveItem(nodes, tree, sourceItem, targetPath) ==
    LET withoutSource ==
            MapSeq(SelectSeq(nodes, LAMBDA node : node.id # sourceItem.id),
                   LAMBDA node :
                       IF HasChildren(node)
                       THEN [node EXCEPT !.children = moveItem(@, tree, sourceItem, targetPath)]
                       ELSE node)
    IN IF targetPath = <<>> \/ targetPath = <<"/">>
       THEN withoutSource \o <<sourceItem>>
       ELSE MapSeq(withoutSource, LAMBDA node :
                IF getNodePath(node, tree, <<>>) = targetPath /\ node.type = "folder"
                THEN [node EXCEPT !.children = @ \o <<sourceItem>>]
                ELSE IF HasChildren(node)
                THEN [node EXCEPT !.children = moveItem(@, tree, sourceItem, targetPath)]
                ELSE node)

\* move_item: the check that keeps a folder out of itself and its descendants
IsCyclicMove(sourceItem, sourcePath, targetPath) ==
    /\ sourceItem.type = "folder"
    /\ targetPath # <<>>
    /\ \/ StartsWith(targetPath, sourcePath \o <<"/">>)
       \/ targetPath = sourcePath

\* move_item
moveItemTool(tree, prev, sourcePath, targetPath) ==
    LET sourceItem == findFileByPath(tree, sourcePath)
        toRoot == targetPath = <<>> \/ targetPath = <<"/">>
        targetDir == findFileByPath(tree, targetPath)
        targetChildren == IF ~toRoot THEN targetDir[1].children ELSE tree
    IN IF sourceItem = Undefined THEN Failure("Source item not found", prev)
       ELSE IF ~toRoot /\ targetDir = Undefined
       THEN Failure("Target directory not found", prev)
       ELSE IF ~toRoot /\ targetDir[1].type # "folder"
       THEN Failure("Target path is not a directory", prev)
       ELSE IF IsCyclicMove(sourceItem[1], sourcePath, targetPath)
       THEN Failure("Cannot move a folder into itself or its descendants", prev)
       ELSE IF \E i \in 1..Len(targetChildren) : targetChildren[i].name = sourceItem[1].name
       THEN Failure("Item with name already exists in target directory", prev)
       ELSE Success(moveItem(prev, tree, sourceItem[1], targetPath))

\* String.prototype.trim, for the blank that occurs
RECURSIVE TrimStart(_)
TrimStart(s) == IF s # <<>> /\ Head(s) = " " THEN TrimStart(Tail(s)) ELSE s
RECURSIVE TrimEnd(_)
TrimEnd(s) == IF s # <<>> /\ s[Len(s)] = " " THEN TrimEnd(Pop(s)) ELSE s
Trim(s) == TrimEnd(TrimStart(s))

\* a filter of one level only
removeTopLevel(nodes, targetItem) == SelectSeq(nodes, LAMBDA node : node.id # targetItem.id)

\* delete_item: the removeItem updater
RECURSIVE removeItem(_, _)
removeItem(nodes, targetItem) ==
    MapSeq(SelectSeq(nodes, LAMBDA node : node.id # targetItem.id),
           LAMBDA node :
               IF HasChildren(node)
               THEN [node EXCEPT !.children = removeItem(@, targetItem)]
               ELSE node)

\* delete_item
deleteItem(tree, prev, path) ==
    LET targetItem == findFileByPath(tree, path)
    IN IF targetItem = Undefined THEN Failure("Item not found", prev)
       ELSE Success(removeItem(prev, targetItem[1]))

\* rename_item: the renameItem updater
RECURSIVE renameItem(_, _, _)
renameItem(nodes, targetItem, newName) ==
    MapSeq(nodes, LAMBDA node :
        IF node.id = targetItem.id THEN [node EXCEPT !.name = Trim(newName)]
        ELSE IF HasChildren(node)
        THEN [node EXCEPT !.children = renameItem(@, targetItem, newName)]
        ELSE node)

\* rename_item
renameItemTool(tree, prev, path, newName) ==
    LET targetItem == findFileByPath(tree, path)
        parentPath == Join(Pop(PathParts(path)))
        parent == findFileByPath(tree, parentPath)
        siblings == IF parentPath # <<>>
                    THEN IF parent # Undefined /\ HasChildren(parent[1])
                         THEN parent[1].children ELSE <<>>
                    ELSE tree
    IN IF targetItem = Undefined THEN Failure("Item not found", prev)
       ELSE IF newName = <<>> \/ Trim(newName) = <<>>
       THEN Failure("New name cannot be empty", prev)
       ELSE IF \E i \in 1..Len(siblings) :
                   siblings[i].name = Trim(newName) /\ siblings[i].id # targetItem[1].id
       THEN Failure("Item with name already exists in the same directory", prev)
       ELSE Success(renameItem(prev, targetItem[1], newName))

\* a copy whose children keep their ids
cloneTopOnly(node, id) == [node |-> [node EXCEPT !.id = id], next |-> id + 1]

\* cloneFileNode: a deep copy under fresh ids, taken from id on; next is the first id
\* left unused
RECURSIVE cloneFileNode(_, _)
RECURSIVE cloneChildren(_, _)
cloneFileNode(node, id) ==
    LET kids == cloneChildren(node.children, id + 1)
    IN [node |-> [node EXCEPT !.id = id, !.children = kids.nodes], next |-> kids.next]
cloneChildren(nodes, id) ==
    IF nodes = <<>> THEN [nodes |-> <<>>, next |-> id]
    ELSE LET first == cloneFileNode(Head(nodes), id)
             rest == cloneChildren(Tail(nodes), first.next)
         IN [nodes |-> <<first.node>> \o rest.nodes, next |-> rest.next]

\* copy_item: the addCopiedItem updater
RECURSIVE addCopiedItem(_, _, _, _)
addCopiedItem(nodes, tree, targetPath, copiedItem) ==
    IF targetPath = <<>> \/ targetPath = <<"/">>
    THEN nodes \o <<copiedItem>>
    ELSE MapSeq(nodes, LAMBDA node :
            IF getNodePath(node, tree, <<>>) = targetPath /\ node.type = "folder"
            THEN [node EXCEPT !.children = @ \o <<copiedItem>>]
            ELSE IF HasChildren(node)
            THEN [node EXCEPT !.children = addCopiedItem(@, tree, targetPath, copiedItem)]
            ELSE node)

\* copy_item; newName <<>> is a newName left out
copyItemTool(tree, prev, sourcePath, targetPath, newName, id) ==
    LET sourceItem == findFileByPath(tree, sourcePath)
        toRoot == targetPath = <<>> \/ targetPath = <<"/">>
        targetDir == findFileByPath(tree, targetPath)
        copyName == IF newName # <<>> THEN newName ELSE sourceItem[1].name
        targetChildren == IF ~toRoot THEN targetDir[1].children ELSE tree
        copiedItem == [cloneFileNode(sourceItem[1], id).node EXCEPT !.name = copyName]
    IN IF sourceItem = Undefined THEN Failure("Source item not found", prev)
       ELSE IF ~toRoot /\ targetDir = Undefined
       THEN Failure("Target directory not found", prev)
       ELSE IF ~toRoot /\ targetDir[1].type # "folder"
       THEN Failure("Target path is not a directory", prev)
       ELSE IF \E i \in 1..Len(targetChildren) : targetChildren[i].name = copyName
       THEN Failure("Item with name already exists in target directory", prev)
       ELSE Success(addCopiedItem(prev, tree, targetPath, copiedItem))

\* modify_text: the updateFile updater of codeEditingTools
RECURSIVE updateFileContent(_, _, _)
updateFileContent(nodes, targetFile, finalContent) ==
    MapSeq(nodes, LAMBDA node :
        IF node.id = targetFile.id THEN [node EXCEPT !.content = finalContent]
        ELSE IF HasChildren(node)
        THEN [node EXCEPT !.children = updateFileContent(@, targetFile, finalContent)]
        ELSE node)

\* modify_text; a parameter left out is Undefined, one given is Some(string)
modifyTextTool(tree, prev, filePath, newContent, findText, replaceText, replaceAll) ==
    LET targetFile == findFileByPath(tree, filePath)
        originalContent == targetFile[1].content
    IN IF targetFile = Undefined THEN Failure("File not found", prev)
       ELSE IF targetFile[1].type # "file" THEN Failure("Path is not a file", prev)
       ELSE IF newContent # Undefined
       THEN Success(updateFileContent(prev, targetFile[1], newContent[1]))
       ELSE IF findText # Undefined /\ replaceText # Undefined
       THEN IF ~Includes(originalContent, findText[1])
            THEN Failure("Text not found in file", prev)
            ELSE Success(updateFileContent(prev, targetFile[1],
                     IF replaceAll
                     THEN JoinWith(SplitBy(originalContent, findText[1]), replaceText[1])
                     ELSE ReplaceFirst(originalContent, findText[1], replaceText[1])))
       ELSE Failure("Either newContent or both findText and replaceText must be provided",
                    prev)

\* modify_text in findText mode with replaceAll left out
modifyText(tree, prev, filePath, findText, replaceText) ==
    modifyTextTool(tree, prev, filePath, Undefined, Some(findText), Some(replaceText), FALSE)


(***************************************************************************)
(* Tool calls on the workspace tree, as the App wires them: the registry   *)
(* merges its context into the parameters (fileTree is the snapshot of the *)
(* render that called setContext), and updateFileTree is that render's     *)
(* updateFileTreeWithSync, which applies the updater to the same snapshot  *)
(* and hands the result to setFileTree.                                    *)
(***************************************************************************)
Str(c) == <<c>>

\* the arguments the tool calls are tried with
PathInputs ==
    { <<>>, <<"a">>, <<"a", "/", "b">>, <<"a", "/", "b", "/", "b">>,
      <<"/", "a", "/", "b">>, <<"a", "/">> }
Contents == { Str("A") }
\* create_item's type argument: any string passes the registry's validation
NodeTypes == { "file", "folder", "dir" }

NoCall ==
    [tool |-> "none", path |-> <<>>, target |-> <<>>, name |-> <<>>, content |-> <<>>,
     type |-> "", newContent |-> <<>>, findText |-> <<>>, replaceText |-> <<>>,
     replaceAll |-> FALSE, includeContent |-> FALSE, recursive |-> FALSE, entries |-> <<>>,
     ok |-> FALSE, error |-> "", updated |-> FALSE, sync |-> TRUE, id |-> 0]

NoCreate == [path |-> <<>>, before |-> <<>>, made |-> FALSE, deleted |-> FALSE]

\* the history of a create_item call followed by a delete_item call of the same path
Record(call, r) ==
    IF call.tool = "create_item" /\ r.ok /\ ctxTree = fileTree
    THEN [path |-> call.path, before |-> fileTree, made |-> TRUE, deleted |-> FALSE]
    ELSE IF /\ call.tool = "delete_item" /\ ctxTree = fileTree
            /\ created.made /\ ~created.deleted /\ call.path = created.path
    THEN [created EXCEPT !.deleted = TRUE]
    ELSE NoCreate

\* updateFileTreeWithSync(updater): setFileTree(updater(fileTree of its render)); of the
\* open tabs it refreshes the content of those whose file is in both trees, so the set
\* of open tabs stays as it is
Apply(call, r) ==
    /\ TreeSize(r.tree) <= MaxNodes
    /\ created' = Record(call, r)
    /\ fileTree' = IF r.updated THEN r.tree ELSE fileTree
    /\ last' = [call EXCEPT !.ok = r.ok, !.error = r.error, !.updated = r.updated,
                            !.sync = (ctxTree = fileTree)]
    /\ UNCHANGED <<ctxTree, tabs>>

CreateItem ==
    /\ last = NoCall
    /\ nextId <= MaxIds
    /\ \E path \in PathInputs, type \in NodeTypes, content \in Contents :
        \E r \in { createItem(ctxTree, ctxTree, path, type, content, nextId) } :
           /\ Apply([NoCall EXCEPT !.tool = "create_item", !.path = path, !.type = type,
                                   !.content = content, !.id = nextId], r)
           /\ nextId' = IF r.ok THEN nextId + 1 ELSE nextId
           /\ UNCHANGED <<chanVars, regVars>>

\* a write_file call with arguments of these sets
WriteFileWith(paths, contents) ==
    /\ last = NoCall
    /\ nextId <= MaxIds
    /\ \E path \in paths, content \in contents :
        \E r \in { writeFile(ctxTree, ctxTree, path, content, nextId) } :
           LET isNew == r.ok /\ findFileByPath(ctxTree, path) = Undefined
           IN /\ Apply([NoCall EXCEPT !.tool = "write_file", !.path = path,
                                      !.content = content, !.id = nextId], r)
              /\ nextId' = IF isNew THEN nextId + 1 ELSE nextId
              /\ UNCHANGED <<chanVars, regVars>>

WriteFile == WriteFileWith(PathInputs, { Str("B") })

MoveItem ==
    /\ last = NoCall
    /\ \E sourcePath \in PathInputs, targetPath \in PathInputs :
        \E r \in { moveItemTool(ctxTree, ctxTree, sourcePath, targetPath) } :
           /\ Apply([NoCall EXCEPT !.tool = "move_item", !.path = sourcePath,
                                   !.target = targetPath], r)
           /\ UNCHANGED <<nextId, chanVars, regVars>>

\* no file content of the tree is longer than the model follows
ContentFits(nodes) ==
    \A i \in 1..TreeSize(nodes) : Len(Flatten(nodes)[i].content) <= MaxLen

\* a modify_text call with arguments of these sets
ModifyTextWith(paths, newContents, findTexts, replaceTexts, replaceAlls) ==
    /\ last = NoCall
    /\ \E filePath \in paths, newContent \in newContents, findText \in findTexts,
          replaceText \in replaceTexts, replaceAll \in replaceAlls :
        \E r \in { modifyTextTool(ctxTree, ctxTree, filePath, newContent, findText,
                                  replaceText, replaceAll) } :
           /\ ContentFits(r.tree)
           /\ Apply([NoCall EXCEPT !.tool = "modify_text", !.path = filePath,
                                   !.content = Str("B"), !.newContent = newContent,
                                   !.findText = findText, !.replaceText = replaceText,
                                   !.replaceAll = replaceAll], r)
           /\ UNCHANGED <<nextId, chanVars, regVars>>

ModifyText ==
    ModifyTextWith(PathInputs, {Undefined}, {Some(Str("A"))}, {Some(Str("B"))}, {FALSE})

\* the texts write_file and modify_text are tried with on one file
TextPaths == { <<"a">> }
TextContents == { <<"A", "A">>, <<"A", "B", "A">>, <<"A", "A", "A">> }
NewContents == { Undefined, Some(Str("B")) }
FindTexts == { Undefined, Some(Str("A")), Some(<<"A", "A">>) }
ReplaceTexts == { Undefined, Some(<<>>), Some(Str("B")), Some(<<"$", "&">>) }

WriteText == WriteFileWith(TextPaths, TextContents)

EditText == ModifyTextWith(TextPaths, NewContents, FindTexts, ReplaceTexts, BOOLEAN)

\* the new names rename_item is tried with
NewNames == { <<>>, <<"b">>, <<" ", "a">> }

DeleteItem ==
    /\ last = NoCall
    /\ \E path \in PathInputs :
        \E r \in { deleteItem(ctxTree, ctxTree, path) } :
           /\ Apply([NoCall EXCEPT !.tool = "delete_item", !.path = path], r)
           /\ UNCHANGED <<nextId, chanVars, regVars>>

RenameItem ==
    /\ last = NoCall
    /\ \E path \in PathInputs, newName \in NewNames :
        \E r \in { renameItemTool(ctxTree, ctxTree, path, newName) } :
           /\ Apply([NoCall EXCEPT !.tool = "rename_item", !.path = path,
                                   !.name = newName], r)
           /\ UNCHANGED <<nextId, chanVars, regVars>>

CopyItem ==
    /\ last = NoCall
    /\ \E sourcePath \in PathInputs, targetPath \in PathInputs, newName \in { <<>>, <<"b">> } :
        \E r \in { copyItemTool(ctxTree, ctxTree, sourcePath, targetPath, newName, nextId) } :
           LET used == IF r.ok
                       THEN cloneFileNode(findFileByPath(ctxTree, sourcePath)[1], nextId).next
                       ELSE nextId
           IN /\ used <= MaxIds + 2     \* room for the clone of a folder with a child
              /\ Apply([NoCall EXCEPT !.tool = "copy_item", !.path = sourcePath,
                                      !.target = targetPath, !.name = newName,
                                      !.id = nextId], r)
              /\ nextId' = used
              /\ UNCHANGED <<chanVars, regVars>>

\* an entry of a DirectoryListing; an entry built without a `children` key has
\* children Undefined
Entry(node, path, includeContent, children) ==
    [name |-> node.name, type |-> node.type, path |-> path,
     size |-> IF node.type = "file" /\ node.content # <<>>
              THEN Some(Len(node.content)) ELSE Undefined,
     content |-> IF includeContent /\ node.type = "file"
                 THEN Some(node.content) ELSE Undefined,
     children |-> children]

\* the entries read_directory makes of the nodes of a directory: with recursive, a folder
\* gets the entries of its children, which are built without children of their own
listEntries(nodes, prefix, includeContent, recursive) ==
    MapSeq(nodes, LAMBDA node :
        LET nodePath == IF prefix = Undefined THEN node.name
                        ELSE prefix[1] \o <<"/">> \o node.name
        IN Entry(node, nodePath, includeContent,
                 IF recursive /\ HasChildren(node)
                 THEN Some(MapSeq(node.children, LAMBDA child :
                               Entry(child, nodePath \o <<"/">> \o child.name,
                                     includeContent, Undefined)))
                 ELSE Undefined))

\* readDirectoryTool.execute
readDirectory(tree, path, includeContent, recursive) ==
    LET targetDir == findFileByPath(tree, path)
    IN IF path = <<>> \/ path = <<"/">> \/ path = <<".">>
       THEN [ok |-> TRUE, error |-> "",
             entries |-> listEntries(tree, Undefined, includeContent, recursive)]
       ELSE IF targetDir = Undefined
       THEN [ok |-> FALSE, error |-> "Directory not found", entries |-> <<>>]
       ELSE IF targetDir[1].type # "folder"
       THEN [ok |-> FALSE, error |-> "Path is not a directory", entries |-> <<>>]
       ELSE [ok |-> TRUE, error |-> "",
             entries |-> listEntries(targetDir[1].children, Some(path), includeContent,
                                     recursive)]

\* the paths read_directory is tried with
ReadPaths == { <<>>, <<"/">>, <<"a">>, <<"a", "/", "b">> }

ReadDirectory ==
    /\ last = NoCall
    /\ \E path \in ReadPaths, includeContent \in BOOLEAN, recursive \in BOOLEAN :
        \E r \in { readDirectory(ctxTree, path, includeContent, recursive) } :
           /\ Apply([NoCall EXCEPT !.tool = "read_directory", !.path = path,
                                   !.includeContent = includeContent,
                                   !.recursive = recursive, !.entries = r.entries],
                    [ok |-> r.ok, error |-> r.error, updated |-> FALSE, tree |-> fileTree])
           /\ UNCHANGED <<nextId, chanVars, regVars>>

\* the caller's `await agentToolRegistry.execute(...)` resumes with the ToolResult; its
\* next call comes after that
TakeResult ==
    /\ last # NoCall
    /\ last' = NoCall
    /\ created' = IF created.deleted THEN NoCreate ELSE created
    /\ UNCHANGED <<fileTree, ctxTree, nextId, tabs, chanVars, regVars>>

\* App's effect on [pyodideReady, fileTree]: agentToolRegistry.setContext of the new render
SetContext ==
    /\ ctxTree # fileTree
    /\ ctxTree' = fileTree
    /\ last' = NoCall
    /\ created' = IF created.deleted THEN NoCreate ELSE created
    /\ UNCHANGED <<fileTree, nextId, tabs, chanVars, regVars>>

(***************************************************************************)
(* The editor tabs of the App and its own delete of the file explorer.     *)
(***************************************************************************)
MaxTabs == 2

\* findFileById: the first node of this id in depth-first order
findFileById(nodes, id) ==
    LET hits == {i \in 1..TreeSize(nodes) : Flatten(nodes)[i].id = id}
    IN IF hits = {} THEN Undefined
       ELSE Some(Flatten(nodes)[CHOOSE i \in hits : \A j \in hits : i <= j])

\* deleteFile's collectFileIds: the ids of the files of a subtree
collectFileIds(node) ==
    {n.id : n \in {m \in {Flatten(<<node>>)[i] : i \in 1..TreeSize(<<node>>)} :
                       m.type = "file"}}

\* removeFromTree
RECURSIVE removeFromTree(_, _)
removeFromTree(nodes, idToRemove) ==
    MapSeq(SelectSeq(nodes, LAMBDA node : node.id # idToRemove),
           LAMBDA node :
               IF HasChildren(node)
               THEN [node EXCEPT !.children = removeFromTree(@, idToRemove)]
               ELSE node)

\* openFileInTab(file): a click on a file of the explorer
OpenFileInTab ==
    /\ last = NoCall
    /\ Cardinality(tabs) < MaxTabs
    /\ \E i \in 1..TreeSize(fileTree) :
          /\ Flatten(fileTree)[i].type = "file"
          /\ Flatten(fileTree)[i].id \notin tabs
          /\ tabs' = tabs \cup {Flatten(fileTree)[i].id}
    /\ UNCHANGED <<fileTree, ctxTree, nextId, last, created, chanVars, regVars>>

\* closeTab(fileId)
CloseTab ==
    /\ last = NoCall
    /\ \E fileId \in tabs : tabs' = tabs \ {fileId}
    /\ UNCHANGED <<fileTree, ctxTree, nextId, last, created, chanVars, regVars>>

\* deleteFile(fileId): the explorer's delete closes the tabs of the deleted files
DeleteFile ==
    /\ last = NoCall
    /\ \E i \in 1..TreeSize(fileTree) :
          LET fileId == Flatten(fileTree)[i].id
              fileToDelete == findFileById(fileTree, fileId)
          IN /\ tabs' = tabs \ collectFileIds(fileToDelete[1])
             /\ fileTree' = removeFromTree(fileTree, fileId)
    /\ created' = NoCreate
    /\ UNCHANGED <<ctxTree, nextId, last, chanVars, regVars>>

(***************************************************************************)
(* The worker channel.  A message carries the id of the call whose request *)
(* it is or answers (req, 0 for init); the code never reads it: replies    *)
(* are told apart by their type alone.                                     *)
(***************************************************************************)
Packages == { "p", "q" }

Msg(type, req, pkg) == [type |-> type, req |-> req, pkg |-> pkg, stdout |-> <<>>]

RemoveAt(s, i) == SubSeq(s, 1, i - 1) \o SubSeq(s, i + 1, Len(s))

CallIds == 1..Len(calls)

\* a run or install call: its worker handle w, its promise (status, ok, by: the request
\* whose reply settled it), its timer, the handler an install call saved (prev), and
\* what was so when it was issued: busy (another call awaited its reply), after (the
\* calls that had timed out by then); acked: the worker answered its request `success`;
\* raised: the Python code of its request raised an exception.  A run call has the code
\* and the files of its request; ran: the code the worker executed for it; pre: what
\* sys.stdout held when the worker took the request; stdout: data.stdout of its result
NewCall(kind, pkg, w, posted, timer, prev) ==
    [kind |-> kind, pkg |-> pkg, w |-> w, status |-> "pending", ok |-> FALSE, by |-> 0,
     posted |-> posted, timer |-> timer, prev |-> prev,
     busy |-> \E d \in CallIds : calls[d].status = "pending" /\ calls[d].w = w,
     after |-> {d \in CallIds : calls[d].status = "timedout"},
     acked |-> FALSE, raised |-> FALSE,
     code |-> <<>>, files |-> <<>>, ran |-> <<>>, pre |-> <<>>, stdout |-> <<>>]

\* resolve(...) of a call's promise: settles it only while it is pending
Resolve(call, ok, by) ==
    IF call.status = "pending"
    THEN [call EXCEPT !.status = "resolved", !.ok = ok, !.by = by]
    ELSE call

\* a timer callback that rejects nothing
RejectNever(call) == call

\* reject(new Error("... timed out ...")) in the setTimeout callback of execute_python
RejectTimeout(call) ==
    IF call.status = "pending"
    THEN [call EXCEPT !.status = "timedout", !.ok = FALSE, !.timer = FALSE]
    ELSE [call EXCEPT !.timer = FALSE]

\* execute_python's handleMessage, on its own call: a `result` resolves it with the
\* message's stdout, an `error` with stdout ""
handleMessage(call, m) ==
    IF m.type = "result"
    THEN Resolve([call EXCEPT !.timer = FALSE,
                              !.stdout = IF call.status = "pending" THEN m.stdout ELSE @],
                 TRUE, m.req)
    ELSE IF m.type = "error" THEN Resolve([call EXCEPT !.timer = FALSE], FALSE, m.req)
    ELSE call

\* whether handleMessage removes itself from the worker's listeners on m
RemovesListener(m) == m.type \in {"result", "error"}

\* install_package's onmessage handler, on its own call
installOnMessage(call, m) ==
    IF m.type = "success" THEN Resolve(call, TRUE, m.req)
    ELSE IF m.type = "error" THEN Resolve(call, FALSE, m.req)
    ELSE call

\* installedPackages after install call h's handler has run on m
InstalledAfter(h, m) ==
    IF m.type = "success" THEN installedPackages \cup {calls[h].pkg}
    ELSE installedPackages

\* a short-circuit test that never finds the package
AlreadyInstalledNever(packageName) == FALSE

\* install_package: the short-circuit test
AlreadyInstalled(packageName) == packageName \in installedPackages

\* the file name the worker takes for the entry point
MainPy == <<"m", "a", "i", "n", ".", "p", "y">>

\* convertFileTreeToFiles: the files of the tree with their paths, in depth-first order
RECURSIVE convertFileTreeToFiles(_, _)
convertFileTreeToFiles(nodes, basePath) ==
    IF nodes = <<>> THEN <<>>
    ELSE LET node == Head(nodes)
             currentPath == IF basePath # <<>> THEN basePath \o <<"/">> \o node.name
                            ELSE node.name
         IN (IF node.type = "file"
             THEN <<[path |-> currentPath, content |-> node.content]>>
             ELSE <<>>)
            \o (IF node.type = "folder"
                THEN convertFileTreeToFiles(node.children, currentPath)
                ELSE <<>>)
            \o convertFileTreeToFiles(Tail(nodes), basePath)

\* the worker's choice of what to run: main.py as FS.writeFile left it (the last file of
\* that path) if the request has a file of path "main.py", else the code of the request
entryCode(files, code) ==
    LET mains == {i \in 1..Len(files) : files[i].path = MainPy}
    IN IF mains # {}
       THEN files[CHOOSE i \in mains : \A j \in mains : j <= i].content
       ELSE code

\* what a program writes to sys.stdout: a program text c stands for print(c), the empty
\* text for a program that prints nothing
PyOutput(code) == IF code = <<>> THEN <<>> ELSE code \o <<"\n">>

\* execute_python with code of these, and execute_with_workspace (workspace: the files
\* are those of the context's fileTree) which calls it
RunCallWith(codes, workspace) ==
    /\ ctxWorker # 0
    /\ Len(calls) < MaxCalls
    /\ \E code \in codes :
        LET c == Len(calls) + 1
            files == IF workspace THEN convertFileTreeToFiles(ctxTree, <<>>) ELSE <<>>
        IN /\ calls' = Append(calls, [NewCall("run", "", ctxWorker, TRUE, TRUE, 0)
                                          EXCEPT !.code = code, !.files = files])
           /\ IF ctxWorker = worker
              THEN /\ listeners' = listeners \cup {c}
                   /\ inbox' = Append(inbox, Msg("run", c, ""))
              ELSE UNCHANGED <<listeners, inbox>>
    /\ UNCHANGED <<worker, ctxWorker, loaded, pystdout, outbox, onmessage, installedPackages,
                   treeVars, regVars>>

\* execute_python (and run_main_script, test_code, which call it), of a program that
\* prints nothing
RunCall == RunCallWith({ <<>> }, FALSE)

\* the programs execute_with_workspace is tried with
Codes == { Str("C") }

MaxRuns == 2

ExecuteWithWorkspace == Len(calls) < MaxRuns /\ RunCallWith(Codes, TRUE)

\* install_package
InstallCall ==
    \E packageName \in Packages :
        /\ ctxWorker # 0
        /\ Len(calls) < MaxCalls
        /\ LET c == Len(calls) + 1
           IN IF AlreadyInstalled(packageName)
              THEN /\ calls' = Append(calls,
                            Resolve(NewCall("install", packageName, ctxWorker, FALSE, FALSE, 0),
                                    TRUE, 0))
                   /\ UNCHANGED <<onmessage, inbox>>
              ELSE /\ calls' = Append(calls,
                            NewCall("install", packageName, ctxWorker, TRUE, FALSE,
                                    IF ctxWorker = worker THEN onmessage ELSE 0))
                   /\ IF ctxWorker = worker
                      THEN /\ onmessage' = c
                           /\ inbox' = Append(inbox, Msg("install", c, packageName))
                      ELSE UNCHANGED <<onmessage, inbox>>
        /\ UNCHANGED <<worker, ctxWorker, loaded, pystdout, outbox, listeners, installedPackages,
                       treeVars, regVars>>

MaxInstalls == 1

\* install_package, while fewer than MaxInstalls calls were made
InstallOnce == Len(calls) < MaxInstalls /\ InstallCall

\* the timer of a run call fires
Timeout ==
    \E c \in CallIds :
        /\ calls[c].timer
        /\ calls' = [calls EXCEPT ![c] = RejectTimeout(@)]
        /\ UNCHANGED <<worker, ctxWorker, loaded, pystdout, inbox, outbox, onmessage, listeners,
                       installedPackages, treeVars, regVars>>

\* the main thread dispatches the next message of the worker: to worker.onmessage (App's
\* handler, or an install call's, which then puts back the handler it saved) and to every
\* handleMessage listener.  App's handler sets pyodideReady on `ready`, and the effect of
\* the following render sets the registry context.
Deliver ==
    /\ outbox # <<>>
    /\ LET m == Head(outbox)
           h == onmessage
       IN /\ calls' = [c \in CallIds |->
                          IF c \in listeners THEN handleMessage(calls[c], m)
                          ELSE IF c = h THEN installOnMessage(calls[c], m)
                          ELSE calls[c]]
          /\ listeners' = IF RemovesListener(m) THEN {} ELSE listeners
          /\ onmessage' = IF h # 0 THEN calls[h].prev ELSE h
          /\ installedPackages' = IF h # 0 THEN InstalledAfter(h, m) ELSE installedPackages
          /\ ctxWorker' = IF h = 0 /\ m.type = "ready" THEN worker ELSE ctxWorker
          /\ outbox' = Tail(outbox)
    /\ UNCHANGED <<worker, loaded, pystdout, inbox, treeVars, regVars>>

\* the worker's onmessage, type "init"
WorkerInit ==
    \E i \in 1..Len(inbox), success \in BOOLEAN :
        /\ inbox[i].type = "init"
        /\ inbox' = RemoveAt(inbox, i)
        /\ loaded' = success
        /\ pystdout' = <<>>
        /\ outbox' = Append(outbox, Msg(IF success THEN "ready" ELSE "error", 0, ""))
        /\ UNCHANGED <<worker, ctxWorker, onmessage, listeners, calls, installedPackages,
                       treeVars, regVars>>

\* files of the registry context's tree as it is when the worker takes the request
requestFilesNow(call) == convertFileTreeToFiles(ctxTree, <<>>)

\* event.data.files of the run request of a call: the array the handler built from the
\* fileTree of its merged parameters and handed to postMessage
requestFiles(call) == call.files

\* what running the code of a request comes to: it ends normally, it raises a Python
\* Exception (which the wrapper `try: exec(...) except Exception` turns into a traceback
\* on stderr), or runPythonAsync itself rejects
RunOutcomes == { "ok", "exception", "fault" }

\* the type of the message the worker posts for an outcome
ReplyType(outcome) == IF outcome = "fault" THEN "error" ELSE "result"

\* the worker's onmessage, type "run": nothing at all unless pyodide is loaded
WorkerRun ==
    \E i \in 1..Len(inbox), outcome \in RunOutcomes :
        /\ inbox[i].type = "run"
        /\ inbox' = RemoveAt(inbox, i)
        /\ LET c == inbox[i].req
               ran == entryCode(requestFiles(calls[c]), calls[c].code)
               captured == pystdout \o PyOutput(ran)
           IN IF loaded
              THEN /\ outbox' = Append(outbox,
                                       IF outcome = "fault" THEN Msg("error", c, "")
                                       ELSE [Msg(ReplyType(outcome), c, "")
                                                EXCEPT !.stdout = captured])
                   \* the buffers are emptied on the way to the `result` reply only
                   /\ pystdout' = IF outcome = "fault" THEN captured ELSE <<>>
                   /\ calls' = [calls EXCEPT ![c].raised = (outcome = "exception"),
                                             ![c].ran = ran, ![c].pre = pystdout]
              ELSE UNCHANGED <<outbox, pystdout, calls>>
        /\ UNCHANGED <<worker, ctxWorker, loaded, onmessage, listeners,
                       installedPackages, treeVars, regVars>>

\* the worker's onmessage, type "install": micropip.install, which throws when micropip
\* was never loaded
WorkerInstall ==
    \E i \in 1..Len(inbox), success \in BOOLEAN :
        /\ inbox[i].type = "install"
        /\ inbox' = RemoveAt(inbox, i)
        /\ outbox' = Append(outbox, Msg(IF success /\ loaded THEN "success" ELSE "error",
                                        inbox[i].req, inbox[i].pkg))
        /\ calls' = [calls EXCEPT ![inbox[i].req].acked = success /\ loaded]
        /\ UNCHANGED <<worker, ctxWorker, loaded, pystdout, onmessage, listeners,
                       installedPackages, treeVars, regVars>>

\* App's worker effect runs again (a remount): the old worker is terminated, a new one is
\* created, sent `init` and given App's onmessage; the registry keeps its context
NewWorker ==
    /\ worker < MaxWorkers
    /\ worker' = worker + 1
    /\ inbox' = <<Msg("init", 0, "")>>
    /\ outbox' = <<>>
    /\ loaded' = FALSE
    /\ pystdout' = <<>>
    /\ onmessage' = 0
    /\ listeners' = {}
    /\ UNCHANGED <<ctxWorker, calls, installedPackages, treeVars, regVars>>

(***************************************************************************)
(* The tool registry (AgentToolRegistryImpl).  A JavaScript value is its   *)
(* kind t and a mark v that tells the caller's values from the context's;  *)
(* an object is a function from its keys to their values.                  *)
(***************************************************************************)
Val(t, v) == [t |-> t, v |-> v]

\* typeof value
TypeOf(val) == IF val.t \in {"array", "null"} THEN "object" ELSE val.t

\* Array.isArray(value)
IsArray(val) == val.t = "array"

\* !value, for the values that occur
Falsy(val) == val.t \in {"undefined", "null"}

EmptyObject == [k \in {} |-> Val("undefined", "")]

\* a spread in which the caller's keys come last
MergeArgsLast(params, ctx) ==
    [k \in DOMAIN params \cup DOMAIN ctx |-> IF k \in DOMAIN params THEN params[k] ELSE ctx[k]]

\* { ...params, ...context }
Merge(params, ctx) ==
    [k \in DOMAIN params \cup DOMAIN ctx |-> IF k \in DOMAIN ctx THEN ctx[k] ELSE params[k]]

\* the registered tools that stand for the rest: name, parameters.properties (the declared
\* type of each), parameters.required
Tools ==
    [execute_python |->
        [name |-> "execute_python",
         properties |-> [code |-> "string", files |-> "array", timeout |-> "number"],
         required |-> <<"code">>],
     install_package |->
        [name |-> "install_package",
         properties |-> [packageName |-> "string"],
         required |-> <<"packageName">>],
     list_packages |->
        [name |-> "list_packages",
         properties |-> [k \in {} |-> ""],
         required |-> <<>>]]

\* a lookup that finds a tool under every name
getAny(name) == Some(Tools.list_packages)

\* this.tools.get(name)
get(name) == IF name \in DOMAIN Tools THEN Some(Tools[name]) ELSE Undefined

\* a ToolResult: success, whether data is there, the error (<<>>: none), the metadata keys
ToolResult(success, data, error, metadata) ==
    [success |-> success, data |-> data, error |-> error, metadata |-> metadata]

\* how a call ends: it returns a result, throws (its promise rejects), or stays pending;
\* invoked: the tool handler ran, on params
Return(result, invoked, params) ==
    [kind |-> "return", result |-> result, invoked |-> invoked, params |-> params]
Throw(error, invoked, params) ==
    [kind |-> "throw", result |-> ToolResult(FALSE, FALSE, error, {}),
     invoked |-> invoked, params |-> params]
Pending(params) ==
    [kind |-> "pending", result |-> ToolResult(FALSE, FALSE, <<>>, {}),
     invoked |-> TRUE, params |-> params]

\* the order in which the keys of an object are visited
KeyOrder ==
    <<"code", "files", "timeout", "packageName", "fileTree", "updateFileTree",
      "pyodideWorker">>

\* validateParameters: the required-parameter loop
RequiredErrors(tool, params) ==
    MapSeq(SelectSeq(tool.required, LAMBDA requiredParam : requiredParam \notin DOMAIN params),
           LAMBDA requiredParam : <<"Missing required parameter: ", requiredParam>>)

\* validateParameters: whether the type check reports paramValue against expectedType
TypeMismatch(expectedType, paramValue) ==
    \/ expectedType = "string" /\ TypeOf(paramValue) # "string"
    \/ expectedType = "number" /\ TypeOf(paramValue) # "number"
    \/ expectedType = "boolean" /\ TypeOf(paramValue) # "boolean"
    \/ expectedType = "array" /\ ~IsArray(paramValue)
    \/ expectedType = "object" /\ (TypeOf(paramValue) # "object" \/ IsArray(paramValue))

\* validateParameters: the loop over Object.entries(params)
TypeErrors(tool, params) ==
    MapSeq(SelectSeq(KeyOrder, LAMBDA paramName :
                /\ paramName \in DOMAIN params
                /\ paramName \in DOMAIN tool.properties
                /\ TypeMismatch(tool.properties[paramName], params[paramName])),
           LAMBDA paramName :
                <<"Parameter '", paramName, "' should be ", tool.properties[paramName],
                  ", got ", TypeOf(params[paramName])>>)

\* a validation that stops after the required-parameter loop when it found something
validateFirstOnly(tool, params) ==
    LET errors == IF RequiredErrors(tool, params) # <<>> THEN RequiredErrors(tool, params)
                  ELSE TypeErrors(tool, params)
    IN [valid |-> errors = <<>>, errors |-> errors]

\* validateParameters
validateParameters(tool, params) ==
    LET errors == RequiredErrors(tool, params) \o TypeErrors(tool, params)
    IN [valid |-> errors = <<>>, errors |-> errors]

\* what the worker does to a posted request: answers it, answers `error`, or nothing
Envs == { "reply", "error", "none" }

\* tool.execute(enhancedParams) of the three tools
Handler(tool, params, env) ==
    LET noWorker == "pyodideWorker" \notin DOMAIN params \/ Falsy(params.pyodideWorker)
    IN CASE tool.name = "execute_python" ->
                IF noWorker
                THEN Return(ToolResult(FALSE, FALSE, <<"Pyodide worker not available">>,
                                       {"executionTime"}), TRUE, params)
                ELSE IF env = "reply"
                THEN Return(ToolResult(TRUE, TRUE, <<>>,
                                       {"executionTime", "codeLength", "filesIncluded"}),
                            TRUE, params)
                ELSE IF env = "error"
                THEN Return(ToolResult(FALSE, TRUE, <<"Unknown execution error">>,
                                       {"executionTime", "codeLength", "filesIncluded"}),
                            TRUE, params)
                ELSE Return(ToolResult(FALSE, FALSE, <<"Code execution timed out">>,
                                       {"executionTime"}), TRUE, params)
         [] tool.name = "install_package" ->
                IF AlreadyInstalled(params.packageName.v)
                THEN Return(ToolResult(TRUE, TRUE, <<>>, {}), TRUE, params)
                ELSE IF noWorker
                THEN Throw(<<"Cannot set properties of undefined">>, TRUE, params)
                ELSE IF env = "reply" THEN Return(ToolResult(TRUE, TRUE, <<>>, {}), TRUE, params)
                ELSE IF env = "error"
                THEN Return(ToolResult(FALSE, FALSE, <<"Unknown error">>, {}), TRUE, params)
                ELSE Pending(params)
         [] tool.name = "list_packages" ->
                Return(ToolResult(TRUE, TRUE, <<>>, {}), TRUE, params)

\* a catch clause that lets the fault through
CatchNothing(outcome) == outcome

\* execute: the catch clause
Catch(outcome) ==
    IF outcome.kind = "throw"
    THEN Return(ToolResult(FALSE, FALSE, outcome.result.error,
                           {"toolName", "registryExecutionTime"}),
                outcome.invoked, outcome.params)
    ELSE outcome

\* execute: the body of the try block
TryExecute(name, params, env) ==
    LET tool == get(name)
        enhancedParams == Merge(params, context.obj)
        validation == validateParameters(tool[1], enhancedParams)
        handled == Handler(tool[1], enhancedParams, env)
    IN IF tool = Undefined
       THEN Return(ToolResult(FALSE, FALSE, <<"Tool '", name, "' not found in registry">>,
                              {"executionTime"}), FALSE, EmptyObject)
       ELSE IF ~context.isSet
       THEN Return(ToolResult(FALSE, FALSE, <<"Tool execution context not set">>,
                              {"executionTime"}), FALSE, EmptyObject)
       ELSE IF ~validation.valid
       THEN Return(ToolResult(FALSE, FALSE,
                              <<"Parameter validation failed: ">> \o validation.errors,
                              {"executionTime"}), FALSE, EmptyObject)
       ELSE IF handled.kind = "return"
       THEN [handled EXCEPT !.result.metadata = @ \cup {"toolName", "registryExecutionTime"}]
       ELSE handled

\* agentToolRegistry.execute(name, params)
execute(name, params, env) == Catch(TryExecute(name, params, env))

\* the names execute is called with, and the arguments: each key absent or one of these
ToolNames == DOMAIN Tools \cup { "nonexistent_tool" }
Absent == Val("absent", "")
ArgKeys == { "code", "timeout", "packageName", "pyodideWorker" }
ArgChoices(k) ==
    CASE k = "code" -> { Absent, Val("string", "arg"), Val("number", "arg") }
      [] k = "timeout" -> { Absent, Val("number", "arg"), Val("string", "arg"),
                            Val("undefined", "") }
      [] k = "packageName" -> { Absent, Val("string", "p") }
      [] k = "pyodideWorker" -> { Absent, Val("object", "arg") }
ArgValues == UNION { ArgChoices(k) : k \in ArgKeys }
ParamObjects ==
    { [k \in { j \in ArgKeys : f[j] # Absent } |-> f[k]] :
        f \in { g \in [ArgKeys -> ArgValues] : \A k \in ArgKeys : g[k] \in ArgChoices(k) } }

NoContext == [isSet |-> FALSE, obj |-> EmptyObject]
NoExec == [name |-> "", params |-> EmptyObject, env |-> "",
           outcome |-> Return(ToolResult(FALSE, FALSE, <<>>, {}), FALSE, EmptyObject)]

\* setContext, as App's effect and the examples call it: pyodideWorker is the worker or
\* undefined
RegSetContext ==
    \E w \in { Val("object", "ctx"), Val("undefined", "") } :
        /\ context' = [isSet |-> TRUE,
                       obj |-> [fileTree |-> Val("array", "ctx"),
                                updateFileTree |-> Val("function", "ctx"),
                                pyodideWorker |-> w]]
        /\ context' # context
        /\ exec' = NoExec
        /\ UNCHANGED <<treeVars, chanVars>>

Execute ==
    \E name \in ToolNames, params \in ParamObjects, env \in Envs :
        /\ exec' = [name |-> name, params |-> params, env |-> env,
                    outcome |-> execute(name, params, env)]
        /\ UNCHANGED <<context, treeVars, chanVars>>

InitReg ==
    /\ context = NoContext
    /\ exec = NoExec

InitChan ==
    /\ worker = 1
    /\ ctxWorker = 0
    /\ loaded = FALSE
    /\ pystdout = <<>>
    /\ inbox = <<Msg("init", 0, "")>>
    /\ outbox = <<>>
    /\ onmessage = 0
    /\ listeners = {}
    /\ calls = <<>>
    /\ installedPackages = {}

InitTree ==
    /\ fileTree = <<>>
    /\ ctxTree = <<>>
    /\ nextId = 1
    /\ last = NoCall
    /\ created = NoCreate
    /\ tabs = {}

Init == InitTree /\ InitChan /\ InitReg

NextTree ==
    \/ CreateItem \/ WriteFile \/ MoveItem \/ ModifyText
    \/ DeleteItem \/ RenameItem \/ CopyItem \/ TakeResult \/ SetContext

SpecTree == Init /\ [][NextTree]_vars

\* the tree tools that make and remove nodes, with the editor tabs of the App
NextTabs ==
    \/ CreateItem \/ DeleteItem \/ TakeResult \/ SetContext
    \/ OpenFileInTab \/ CloseTab \/ DeleteFile

SpecTabs == Init /\ [][NextTabs]_vars

\* read_directory on the trees create_item builds
NextList == CreateItem \/ ReadDirectory \/ TakeResult \/ SetContext

SpecList == Init /\ [][NextList]_vars

\* write_file and modify_text on the text of one file
NextText == WriteText \/ EditText \/ TakeResult \/ SetContext

SpecText == Init /\ [][NextText]_vars

NextChan ==
    \/ RunCall \/ InstallCall \/ Timeout \/ Deliver
    \/ WorkerInit \/ WorkerRun \/ WorkerInstall \/ NewWorker

SpecChan == Init /\ [][NextChan]_vars

NextReg == RegSetContext \/ Execute

SpecReg == Init /\ [][NextReg]_vars

\* the scripts write_file puts into the workspace
ScriptPaths == { MainPy, <<"a">> }
ScriptContents == { Str("A") }

WriteScript == WriteFileWith(ScriptPaths, ScriptContents)

\* the tools that have failure paths: create_item, move_item and write_file on the tree,
\* install_package with the worker that answers it
NextFail ==
    \/ CreateItem \/ MoveItem \/ WriteFile \/ TakeResult \/ SetContext
    \/ WorkerInit \/ Deliver \/ InstallOnce \/ WorkerInstall

SpecFail == Init /\ [][NextFail]_vars

\* execute_with_workspace on a workspace of scripts, with the worker that runs them
NextRun ==
    \/ WorkerInit \/ Deliver \/ WriteScript \/ TakeResult \/ SetContext
    \/ ExecuteWithWorkspace \/ WorkerRun

SpecRun == Init /\ [][NextRun]_vars


\* the event loop runs a fired timer and dispatches a posted message; here the worker
\* also answers every request it was sent
FairChan ==
    /\ SpecChan
    /\ WF_vars(Timeout) /\ WF_vars(Deliver)
    /\ WF_vars(WorkerInit) /\ WF_vars(WorkerRun) /\ WF_vars(WorkerInstall)

(***************************************************************************)
(* The claims.                                                             *)
(***************************************************************************)

\* C1: a reply to the request of a run call that has timed out is ignored: it never
\* settles a run call that was issued after that timeout fired.
C1_StaleReplyIgnored ==
    \A c \in CallIds :
        calls[c].kind = "run" /\ calls[c].status = "resolved"
            => calls[c].by \notin calls[c].after

\* C2: a run or install call made while another call still awaits its reply sends no
\* request to the worker.
C2_RejectOnBusy ==
    \A c \in CallIds : calls[c].busy => ~calls[c].posted

\* the worker has answered an install request for package p with `success`
Acked(p) ==
    \E c \in CallIds : calls[c].kind = "install" /\ calls[c].pkg = p /\ calls[c].acked

\* C7: a package is in the installed set, and an install call that contacted the worker
\* reports success for it, only if the worker answered an install request for that
\* package with `success`.
C7_InstalledOnlyIfAcked ==
    /\ \A p \in installedPackages : Acked(p)
    /\ \A c \in CallIds :
           calls[c].kind = "install" /\ calls[c].posted /\ calls[c].ok => Acked(calls[c].pkg)

\* some install_package call for p has returned success
InstallSucceeded(p) ==
    \E d \in CallIds :
        /\ calls[d].kind = "install" /\ calls[d].pkg = p
        /\ calls[d].status = "resolved" /\ calls[d].ok

\* C8: once install_package(p) has succeeded, a later install_package(p) returns success
\* at once, posts nothing to the worker and leaves the installed set as it is.
C8_InstalledShortCircuits ==
    [][\A p \in Packages :
          /\ InstallSucceeded(p)
          /\ Len(calls') = Len(calls) + 1
          /\ calls'[Len(calls')].kind = "install"
          /\ calls'[Len(calls')].pkg = p
          => /\ calls'[Len(calls')].status = "resolved"
             /\ calls'[Len(calls')].ok
             /\ ~calls'[Len(calls')].posted
             /\ inbox' = inbox
             /\ installedPackages' = installedPackages]_vars

\* C8's case: an install that went to the worker and succeeded, then one of the same
\* package that returned success without a request
C8_Witness ==
    \E d \in CallIds, c \in CallIds :
        /\ d < c
        /\ calls[d].kind = "install" /\ calls[c].kind = "install"
        /\ calls[d].pkg = calls[c].pkg
        /\ calls[d].posted /\ calls[d].status = "resolved" /\ calls[d].ok
        /\ ~calls[c].posted /\ calls[c].status = "resolved" /\ calls[c].ok

\* C9: whenever a new worker instance is created, the installed set is empty again.
C9_ResetOnReinit ==
    [][worker' # worker => installedPackages' = {}]_vars

\* C10: every install_package call eventually returns a ToolResult.
C10_InstallReturns ==
    \A c \in 1..MaxCalls :
        [](c \in CallIds /\ calls[c].kind = "install"
               => <>(c \in CallIds /\ calls[c].status # "pending"))

\* C11: a run call never stays pending: while it is pending its timer is armed, a call
\* whose timer fired first has failed with the timeout error, and every run call
\* eventually returns.
C11_RunTimesOut ==
    /\ [](\A c \in CallIds :
             calls[c].kind = "run"
                 => /\ calls[c].status = "pending" => calls[c].timer
                    /\ calls[c].status = "timedout" => ~calls[c].ok)
    /\ \A c \in 1..MaxCalls :
           [](c \in CallIds /\ calls[c].kind = "run"
                  => <>(c \in CallIds /\ calls[c].status # "pending"))

\* C11's case: a run call on a worker that posted no reply has failed by its timeout
C11_Witness ==
    \E c \in CallIds :
        /\ calls[c].kind = "run" /\ calls[c].status = "timedout" /\ ~calls[c].ok
        /\ outbox = <<>>
        /\ \A i \in 1..Len(inbox) : inbox[i].req # c

\* C12: execute_python on code that raises a Python exception, settled by the reply to
\* its own request, returns a failed result.
C12_PythonErrorFails ==
    \A c \in CallIds :
        /\ calls[c].kind = "run" /\ calls[c].raised
        /\ calls[c].status = "resolved" /\ calls[c].by = c
        => ~calls[c].ok

\* the latest execute call returned a ToolResult
Returned == exec.name # "" /\ exec.outcome.kind = "return"

\* C13: execute of a name that is not registered returns the failure "Tool '<name>' not
\* found in registry", with or without a context, and runs no handler.
C13_UnknownToolNotFound ==
    exec.name # "" /\ exec.name \notin DOMAIN Tools
    => /\ exec.outcome.kind = "return"
       /\ ~exec.outcome.result.success
       /\ exec.outcome.result.error = <<"Tool '", exec.name, "' not found in registry">>
       /\ ~exec.outcome.invoked

\* C13's case: an unregistered name executed after the context was set
C13_Witness ==
    context.isSet /\ exec.name = "nonexistent_tool" /\ exec.outcome.kind = "return"

\* C14: in the object a handler receives, every key of the registry context has the
\* context's value, whatever the caller passed under that key.
C14_ContextWins ==
    exec.name # "" /\ exec.outcome.invoked
    => \A k \in DOMAIN context.obj :
           k \in DOMAIN exec.outcome.params /\ exec.outcome.params[k] = context.obj[k]

\* C14's case: the caller passed its own pyodideWorker and the handler ran
C14_Witness ==
    /\ exec.name # "" /\ exec.outcome.invoked
    /\ context.isSet /\ "pyodideWorker" \in DOMAIN exec.params
    /\ exec.params.pyodideWorker # context.obj.pyodideWorker

\* what is wrong with the merged arguments of the latest call: the required keys that are
\* missing and the declared parameters whose value is not of the declared type
Violations ==
    LET tool == Tools[exec.name]
        merged == [k \in DOMAIN exec.params \cup DOMAIN context.obj |->
                      IF k \in DOMAIN context.obj THEN context.obj[k] ELSE exec.params[k]]
    IN {k \in DOMAIN tool.properties :
            \/ k \notin DOMAIN merged /\ \E i \in 1..Len(tool.required) : tool.required[i] = k
            \/ k \in DOMAIN merged /\ merged[k].t # tool.properties[k]}

\* C15: with k > 0 violations in the merged arguments, execute returns one failure whose
\* error lists all k of them and the handler is not invoked; with none the handler runs.
C15_ValidationAccumulates ==
    exec.name \in DOMAIN Tools /\ context.isSet
    => IF Violations # {}
       THEN /\ exec.outcome.kind = "return"
            /\ ~exec.outcome.result.success
            /\ ~exec.outcome.invoked
            /\ Head(exec.outcome.result.error) = "Parameter validation failed: "
            /\ Len(exec.outcome.result.error) = 1 + Cardinality(Violations)
            /\ \A k \in Violations :
                   \E i \in 2..Len(exec.outcome.result.error) :
                       exec.outcome.result.error[i][2] = k
       ELSE exec.outcome.invoked

\* C15's case: a missing required key together with a mis-typed parameter
C15_Witness ==
    /\ exec.name = "execute_python" /\ context.isSet
    /\ "code" \notin DOMAIN exec.params
    /\ "timeout" \in DOMAIN exec.params /\ exec.params.timeout.t = "string"
    /\ Cardinality(Violations) = 2

\* C16: the promise execute returns never rejects; a fault of the handler becomes a
\* failed ToolResult with an error message.
C16_NeverRejects ==
    exec.name # ""
    => /\ exec.outcome.kind # "throw"
       /\ TryExecute(exec.name, exec.params, exec.env).kind = "throw"
              => /\ exec.outcome.kind = "return"
                 /\ ~exec.outcome.result.success /\ exec.outcome.result.error # <<>>

\* C16's case: install_package ran without a worker in the context, and its fault came
\* back as a failed result
C16_Witness ==
    /\ exec.name = "install_package"
    /\ context.isSet /\ Falsy(context.obj.pyodideWorker)
    /\ exec.outcome.invoked /\ exec.outcome.kind = "return"
    /\ ~exec.outcome.result.success
    /\ exec.outcome.result.error = <<"Cannot set properties of undefined">>

\* C17: every ToolResult execute returns carries metadata.executionTime.
C17_HasExecutionTime ==
    Returned => "executionTime" \in exec.outcome.result.metadata

\* C18: a ToolResult execute returns has data and no error when success is true, and an
\* error and no data when success is false.
C18_DataXorError ==
    Returned
    => IF exec.outcome.result.success
       THEN exec.outcome.result.data /\ exec.outcome.result.error = <<>>
       ELSE ~exec.outcome.result.data /\ exec.outcome.result.error # <<>>

\* the node a path resolves to in the tree the latest call saw
Resolved(path) == findFileByPath(ctxTree, path)

\* the ids of a node and of all its descendants
SubtreeIds(node) == {n.id : n \in {Flatten(<<node>>)[i] : i \in 1..TreeSize(<<node>>)}}

\* how often a node with this id occurs in a tree
Occurrences(nodes, id) == Cardinality({i \in 1..TreeSize(nodes) : Flatten(nodes)[i].id = id})

\* a tree without the nodes of this id (and their subtrees)
RECURSIVE Without(_, _)
Without(nodes, id) ==
    MapSeq(SelectSeq(nodes, LAMBDA node : node.id # id),
           LAMBDA node : [node EXCEPT !.children = Without(@, id)])

\* C3: move_item of a folder to a targetPath that resolves to that folder or to one of
\* its descendants fails and leaves the tree unchanged, however the paths are spelled.
C3_NoMoveIntoSelf ==
    /\ last.tool = "move_item" /\ last.sync
    /\ Resolved(last.path) # Undefined /\ Resolved(last.target) # Undefined
    /\ Resolved(last.path)[1].type = "folder"
    /\ Resolved(last.target)[1].id \in SubtreeIds(Resolved(last.path)[1])
    => ~last.ok /\ fileTree = ctxTree

\* C4: after a successful move_item (the target not being the moved node or one of its
\* descendants) the moved node occurs exactly once, unchanged, as the last child of the
\* target folder (or last at the top level), and nothing else changed.
C4_MovedExactlyOnce ==
    /\ last.tool = "move_item" /\ last.sync /\ last.ok
    /\ Resolved(last.target) # Undefined
           => Resolved(last.target)[1].id \notin SubtreeIds(Resolved(last.path)[1])
    => LET moved == Resolved(last.path)[1]
           toRoot == PathParts(last.target) = <<>>
           target == findFileByPath(fileTree, last.target)
           siblings == IF toRoot THEN fileTree ELSE target[1].children
       IN /\ Occurrences(fileTree, moved.id) = 1
          /\ toRoot \/ target # Undefined
          /\ siblings # <<>> /\ siblings[Len(siblings)] = moved
          /\ Without(fileTree, moved.id) = Without(ctxTree, moved.id)

\* C5: write_file on a path that names a file, does not resolve and whose parent is the root or a
\* folder, when it returns success, has added exactly one file node, the last child of
\* that parent, and read_file of the path returns the written content.
C5_WriteCreates ==
    /\ last.tool = "write_file" /\ last.sync /\ last.ok
    /\ PathParts(last.path) # <<>> /\ Resolved(last.path) = Undefined
    => LET parentPath == Join(Pop(PathParts(last.path)))
           parent == findFileByPath(fileTree, parentPath)
           siblings == IF parentPath = <<>> THEN fileTree ELSE parent[1].children
       IN /\ TreeSize(fileTree) = TreeSize(ctxTree) + 1
          /\ Occurrences(fileTree, last.id) = 1
          /\ siblings # <<>> /\ siblings[Len(siblings)].id = last.id
          /\ readFile(fileTree, last.path) = [ok |-> TRUE, content |-> last.content]

\* C6: a tool call sees the tree the earlier successful calls produced: modify_text with
\* findText "A" fails only if, in the workspace tree, the path is no file or its
\* content does not contain "A"; create_item fails for want of its parent only if the
\* parent path resolves to nothing in the workspace tree.
C6_SeesEarlierCalls ==
    /\ last.tool = "modify_text" /\ ~last.ok
       => ~(readFile(fileTree, last.path).ok
            /\ Includes(readFile(fileTree, last.path).content, Str("A")))
    /\ last.tool = "create_item" /\ last.error = "Parent directory not found"
       => findFileByPath(fileTree, Join(Pop(PathParts(last.path)))) = Undefined

\* no two nodes of one folder (or of the top level) carry the same name, at any depth
RECURSIVE UniqueSiblingNames(_)
UniqueSiblingNames(nodes) ==
    /\ \A i \in 1..Len(nodes) : \A j \in (i + 1)..Len(nodes) :
           nodes[i].name # <<>> => nodes[i].name # nodes[j].name
    /\ \A i \in 1..Len(nodes) : UniqueSiblingNames(nodes[i].children)

\* C19: after any sequence of successful tool calls on the tree, no folder and not the
\* top level holds two children with the same name.
C19_UniqueSiblingNames == UniqueSiblingNames(fileTree)

\* C20: after any sequence of successful tool calls no two nodes of the tree have the
\* same id: every node occurs at one position only.
C20_UniqueIds ==
    \A i \in 1..TreeSize(fileTree) : Occurrences(fileTree, Flatten(fileTree)[i].id) = 1

\* a node as the FileNode interface means it
WellFormed(node) ==
    /\ node.name # <<>>
    /\ node.type \in {"file", "folder"}
    /\ node.type # "folder" => node.children = <<>>
    /\ node.type # "file" => node.content = <<>>

\* C21: after any successful tool call with arguments that pass the registry's
\* validation, every node of the tree has a non-empty name, type file or folder,
\* children only if it is a folder and content only if it is a file.
C21_WellFormedNodes ==
    \A i \in 1..TreeSize(fileTree) : WellFormed(Flatten(fileTree)[i])

\* a tree as the tools expect it: well-formed nodes, one position per id, no two
\* siblings of one name
ValidTree(nodes) ==
    /\ UniqueSiblingNames(nodes)
    /\ \A i \in 1..TreeSize(nodes) :
          /\ WellFormed(Flatten(nodes)[i])
          /\ Occurrences(nodes, Flatten(nodes)[i].id) = 1

\* the tree with newNode as the last child of the folder at the parts (of the top level
\* when there are none)
RECURSIVE InsertUnder(_, _, _)
InsertUnder(nodes, parts, newNode) ==
    IF parts = <<>> THEN nodes \o <<newNode>>
    ELSE [i \in 1..Len(nodes) |->
            IF nodes[i].name = parts[1] /\ \A j \in 1..(i - 1) : nodes[j].name # parts[1]
            THEN [nodes[i] EXCEPT !.children = InsertUnder(@, Tail(parts), newNode)]
            ELSE nodes[i]]

\* C22: create_item of a path that names an item (the path of no parts being the root)
\* fails and leaves the tree unchanged if an item resolves at the path or if the parent
\* path is not the root and resolves to nothing or to a node that is no folder; otherwise
\* it succeeds and the new node, under an id not in the tree, is the last child of the
\* parent (the last top-level node for the root), the rest of the tree being as before.
C22_CreateItemContract ==
    (last.tool = "create_item" /\ last.sync /\ PathParts(last.path) # <<>>) =>
        LET parts == PathParts(last.path)
            parent == FindByParts(ctxTree, Pop(parts))
            itemName == IF parts = <<>> THEN <<>> ELSE parts[Len(parts)]
            newNode == FileNode(last.id, itemName, last.type,
                                IF last.type = "file" THEN last.content ELSE <<>>, <<>>)
        IN IF \/ Resolved(last.path) # Undefined
              \/ Pop(parts) # <<>> /\ (parent = Undefined \/ parent[1].type # "folder")
           THEN ~last.ok /\ fileTree = ctxTree
           ELSE /\ last.ok
                /\ Occurrences(ctxTree, last.id) = 0
                /\ fileTree = InsertUnder(ctxTree, Pop(parts), newNode)

RECURSIVE RemoveUnder(_, _)
RemoveUnder(nodes, parts) ==
    LET first == CHOOSE i \in 1..Len(nodes) :
                    nodes[i].name = parts[1] /\ \A j \in 1..(i - 1) : nodes[j].name # parts[1]
    IN IF Len(parts) = 1
       THEN SubSeq(nodes, 1, first - 1) \o SubSeq(nodes, first + 1, Len(nodes))
       ELSE [nodes EXCEPT ![first].children = RemoveUnder(@, Tail(parts))]

\* C24: delete_item fails and leaves the tree unchanged when the path does not resolve;
\* otherwise it succeeds and removes the resolved node with its whole subtree, at
\* whatever depth the node is, and no other node changes.
C24_DeleteItemContract ==
    (last.tool = "delete_item" /\ last.sync) =>
        IF Resolved(last.path) = Undefined
        THEN ~last.ok /\ fileTree = ctxTree
        ELSE last.ok /\ fileTree = RemoveUnder(ctxTree, PathParts(last.path))

\* the id is the id of a file of the tree
IsFileOf(nodes, id) ==
    \E i \in 1..TreeSize(nodes) : Flatten(nodes)[i].id = id /\ Flatten(nodes)[i].type = "file"

\* C25: after a delete_item tool call succeeds, every open editor tab's fileId is the
\* id of a file of the tree: no tab refers to the deleted node or to a file of its
\* subtree (the tabs having referred to files of the tree before the call).
C25_NoTabOnDeletedFile ==
    (/\ last.tool = "delete_item" /\ last.ok /\ last.sync
     /\ \A id \in tabs : IsFileOf(ctxTree, id))
        => \A id \in tabs : IsFileOf(fileTree, id)

\* the tree with the node the parts lead to (the first match by name at each level)
\* under another name
RECURSIVE RenameUnder(_, _, _)
RenameUnder(nodes, parts, newName) ==
    LET first == CHOOSE i \in 1..Len(nodes) :
                    nodes[i].name = parts[1] /\ \A j \in 1..(i - 1) : nodes[j].name # parts[1]
    IN IF Len(parts) = 1
       THEN [nodes EXCEPT ![first].name = newName]
       ELSE [nodes EXCEPT ![first].children = RenameUnder(@, Tail(parts), newName)]

\* the nodes beside the one the parts lead to: the children of its parent
Siblings(nodes, parts) ==
    IF Len(parts) = 1 THEN nodes ELSE FindByParts(nodes, Pop(parts))[1].children

\* C26: rename_item of a path that resolves fails and leaves the tree unchanged when
\* newName is empty or when another node of the same parent bears newName; when it
\* succeeds the tree is as before but for the name of the target node: its id, content,
\* children and position and all other nodes are unchanged.
C26_RenameItemContract ==
    (last.tool = "rename_item" /\ last.sync /\ Resolved(last.path) # Undefined) =>
        LET parts == PathParts(last.path)
            target == Resolved(last.path)[1]
            siblings == Siblings(ctxTree, parts)
        IN /\ (\/ last.name = <<>>
               \/ \E i \in 1..Len(siblings) :
                      siblings[i].name = last.name /\ siblings[i].id # target.id)
              => (~last.ok /\ fileTree = ctxTree)
           /\ ~last.ok => fileTree = ctxTree
           /\ last.ok => \E newName \in {last.name, Trim(last.name)} :
                             fileTree = RenameUnder(ctxTree, parts, newName)

\* the ids that occur in a tree
Ids(nodes) == {Flatten(nodes)[i].id : i \in 1..TreeSize(nodes)}

\* the nodes copy_item added: the ids of the tree that are new
NewIds == Ids(fileTree) \ Ids(ctxTree)

ModeNew == last.newContent # Undefined
ModeFind == last.findText # Undefined /\ last.replaceText # Undefined

\* C28: a modify_text call that supplies both newContent and findText/replaceText, or
\* neither of the two modes, fails and leaves the tree, so the file content, unchanged.
C28_ExactlyOneMode ==
    (/\ last.tool = "modify_text" /\ last.sync
     /\ \/ ModeNew /\ ModeFind
        \/ ~ModeNew /\ ~ModeFind)
        => (~last.ok /\ fileTree = ctxTree)

\* C29: modify_text in findText mode on a file whose content, as the call sees it, does
\* not contain findText fails with the text-not-found error, does not invoke the
\* tree-replacement callback and leaves the tree, so the content, unchanged.
C29_TextNotFoundFails ==
    (/\ last.tool = "modify_text" /\ ~ModeNew /\ ModeFind
     /\ Resolved(last.path) # Undefined /\ Resolved(last.path)[1].type = "file"
     /\ IndexOf(Resolved(last.path)[1].content, last.findText[1]) = 0)
        => /\ ~last.ok /\ last.error = "Text not found in file"
           /\ ~last.updated
           /\ last.sync => fileTree = ctxTree

\* a modify_text call looked for a text the file does not contain
C29_Witness ==
    /\ last.tool = "modify_text" /\ ~ModeNew /\ ModeFind /\ last.sync
    /\ Resolved(last.path) # Undefined /\ Resolved(last.path)[1].type = "file"
    /\ Resolved(last.path)[1].content = <<"A", "B", "A">>
    /\ last.findText[1] = <<"A", "A">>
    /\ ~last.ok

\* s with every non-overlapping occurrence of find, from the left, replaced by repl as
\* it is written (find is not empty)
RECURSIVE ReplaceEvery(_, _, _)
ReplaceEvery(s, find, repl) ==
    LET i == IndexOf(s, find)
    IN IF i = 0 THEN s
       ELSE SubSeq(s, 1, i - 1) \o repl
            \o ReplaceEvery(SubSeq(s, i + Len(find), Len(s)), find, repl)

\* s with the first occurrence of find replaced by repl as it is written
ReplaceOne(s, find, repl) ==
    LET i == IndexOf(s, find)
    IN IF i = 0 THEN s
       ELSE SubSeq(s, 1, i - 1) \o repl \o SubSeq(s, i + Len(find), Len(s))

\* C30: a successful modify_text in findText mode, findText and replaceText being taken
\* as they are written, replaces every non-overlapping occurrence of findText by
\* replaceText when replaceAll is true and only the first one when it is false; all
\* other text, and the rest of the tree, is unchanged.
C30_ReplacesLiterally ==
    (/\ last.tool = "modify_text" /\ ~ModeNew /\ ModeFind /\ last.ok /\ last.sync
     /\ last.findText[1] # <<>>)
        => LET targetFile == Resolved(last.path)[1]
               find == last.findText[1]
               repl == last.replaceText[1]
           IN fileTree = updateFileContent(ctxTree, targetFile,
                            IF last.replaceAll
                            THEN ReplaceEvery(targetFile.content, find, repl)
                            ELSE ReplaceOne(targetFile.content, find, repl))

\* a run call that its own request's `result` reply has settled
OwnResult(c) ==
    /\ calls[c].kind = "run" /\ calls[c].status = "resolved"
    /\ calls[c].by = c /\ calls[c].ok

\* C31: execute_with_workspace(code) runs the supplied code, whatever files the workspace
\* holds: the worker executes that code, and the stdout returned is what that code
\* prints (when the capture buffer was empty as the run began).
C31_RunsSuppliedCode ==
    \A c \in CallIds :
        OwnResult(c)
        => /\ calls[c].ran = calls[c].code
           /\ calls[c].pre = <<>> => calls[c].stdout = PyOutput(calls[c].code)

\* C39: the stdout returned for a run holds only what that run printed: a run call
\* settled by the `result` reply to its own request has as stdout the output of the
\* code the worker executed for it, and nothing an earlier run left behind.
C39_OnlyOwnOutput ==
    \A c \in CallIds :
        OwnResult(c) => calls[c].stdout = PyOutput(calls[c].ran)

\* C33: modify_text with newContent (and no find/replace pair) on a filePath that resolves
\* to nothing creates the file: the call succeeds and the path then reads back the given
\* content.
C33_NewContentCreates ==
    /\ last.tool = "modify_text" /\ last.sync
    /\ ModeNew /\ ~ModeFind
    /\ PathParts(last.path) # <<>> /\ Resolved(last.path) = Undefined
    => /\ last.ok
       /\ readFile(fileTree, last.path) = [ok |-> TRUE, content |-> last.newContent[1]]

\* the entries list the nodes one for one, and every folder among them, at any depth,
\* carries the listing of its own children
RECURSIVE ListsAll(_, _)
ListsAll(entries, nodes) ==
    /\ Len(entries) = Len(nodes)
    /\ \A i \in 1..Len(nodes) :
           /\ entries[i].name = nodes[i].name
           /\ nodes[i].type = "folder"
                  => /\ entries[i].children # Undefined
                     /\ ListsAll(entries[i].children[1], nodes[i].children)

\* the nodes of the directory the latest read_directory call listed
Listed ==
    IF Resolved(last.path) = Undefined THEN ctxTree ELSE Resolved(last.path)[1].children

\* C32: a successful read_directory with recursive = true lists every descendant of the
\* directory: each folder entry, at any depth, carries the listing of its children.
C32_RecursiveListsAll ==
    last.tool = "read_directory" /\ last.ok /\ last.recursive
    => ListsAll(last.entries, Listed)

\* the paths resolution is tried with: plain ones, and ones with a leading, a trailing
\* and a doubled slash
ResolvePaths ==
    PathInputs \cup { <<"a", "/", "/", "b">>, <<"/", "a", "/", "b", "/">>,
                      <<"a", "/", "b", "/", "/", "b">>, <<"b">> }

\* the path of the first k parts of p
Prefix(p, k) == Join(SubSeq(PathParts(p), 1, k))

\* the nodes among which the node of path p is to be found: the children of the folder
\* its parent path resolves to, the top level when one part remains
Around(nodes, p) ==
    LET parent == findFileByPath(nodes, Join(Pop(PathParts(p))))
    IN IF Len(PathParts(p)) = 1 THEN nodes
       ELSE IF parent # Undefined /\ parent[1].type = "folder" THEN parent[1].children
       ELSE <<>>

\* C34: a path that resolves to a node resolves, with its last segment removed, to the
\* folder whose children hold that node (to the root when one segment remains), and
\* empty segments make no difference; a path does not resolve when one of its proper
\* prefixes resolves to nothing or to a file.
C34_ParentChildConsistent ==
    \A p \in ResolvePaths :
        LET node == findFileByPath(fileTree, p)
        IN /\ node = findFileByPath(fileTree, Join(PathParts(p)))
           /\ node # Undefined
                  => /\ node[1].name = PathParts(p)[Len(PathParts(p))]
                     /\ \E i \in 1..Len(Around(fileTree, p)) : Around(fileTree, p)[i] = node[1]
           /\ (\E k \in 1..(Len(PathParts(p)) - 1) :
                   \/ findFileByPath(fileTree, Prefix(p, k)) = Undefined
                   \/ findFileByPath(fileTree, Prefix(p, k))[1].type = "file")
                  => node = Undefined

\* C34's case: a path with an empty segment in front and a doubled slash resolves to a
\* node two levels down, and a path through a file resolves to nothing
C34_Witness ==
    /\ findFileByPath(fileTree, <<"a", "/", "/", "b">>) # Undefined
    /\ findFileByPath(fileTree, <<"/", "a", "/", "b", "/">>) # Undefined
    /\ findFileByPath(fileTree, <<"a", "/", "b", "/", "b">>) = Undefined
    /\ findFileByPath(fileTree, <<"a", "/", "b">>)[1].type = "file"

\* C35: a tree replacement is applied to the current tree: a successful call that adds a
\* node (create_item of a named path, on a tree as the tools expect it) leaves every node
\* in the tree that the completed mutations before it had put there.
C35_NoLostUpdate ==
    [][/\ last = NoCall /\ last'.tool = "create_item" /\ last'.ok
       /\ PathParts(last'.path) # <<>> /\ ValidTree(fileTree)
       => Ids(fileTree) \subseteq Ids(fileTree')]_vars

\* the arguments of the latest call without the keys passed as undefined
Omitted ==
    [k \in {j \in DOMAIN exec.params : exec.params[j].t # "undefined"} |-> exec.params[k]]

\* C37: a parameter passed explicitly as undefined is treated like an omitted one: when
\* the call without that key passes validation and runs the handler, so does the call
\* with it, and it ends with the same result.
C37_UndefinedIsOmitted ==
    /\ exec.name # "" /\ Omitted # exec.params
    /\ execute(exec.name, Omitted, exec.env).invoked
    => /\ exec.outcome.kind = execute(exec.name, Omitted, exec.env).kind
       /\ exec.outcome.result = execute(exec.name, Omitted, exec.env).result
       /\ exec.outcome.invoked = execute(exec.name, Omitted, exec.env).invoked

\* the install calls whose handler is the worker's onmessage or is saved, directly or
\* through other install handlers, by the handler that is
RECURSIVE Chain(_)
Chain(h) == IF h = 0 THEN {} ELSE {h} \cup Chain(calls[h].prev)

\* an install call that has posted its request to the current worker and awaits the reply
AwaitsInstall(c) ==
    /\ calls[c].kind = "install" /\ calls[c].status = "pending"
    /\ calls[c].posted /\ calls[c].w = worker

\* C38: an install_package call returns once the worker answers its request, whatever
\* other messages are dispatched before the answer: while the call awaits the reply, its
\* handler stays in place to receive it; and the step in which the call returns leaves
\* the worker with the handler that was installed before the call.
C38_InstallSurvivesInterleaving ==
    /\ [](\A c \in CallIds : AwaitsInstall(c) => c \in Chain(onmessage))
    /\ [][\A c \in CallIds :
             AwaitsInstall(c) /\ calls'[c].status = "resolved"
                 => onmessage' = calls[c].prev]_vars

\* C36: a call uses the context of the moment it was dispatched: while it is in flight no
\* step, a setContext among them, changes the worker handle, the code or the files (made
\* from the context's fileTree) it holds, and the worker runs it on those files.
C36_ContextAtDispatch ==
    /\ [][\A c \in CallIds :
             calls[c].status = "pending"
                 => /\ calls'[c].w = calls[c].w
                    /\ calls'[c].code = calls[c].code
                    /\ calls'[c].files = calls[c].files]_vars
    /\ [](\A c \in CallIds :
             OwnResult(c) => calls[c].ran = entryCode(calls[c].files, calls[c].code))

\* C36's case: a run call in flight, its request not yet taken by the worker, whose files
\* are without main.py while the context set since its dispatch has a tree with main.py
C36_Witness ==
    \E c \in CallIds :
        /\ calls[c].status = "pending" /\ \E i \in 1..Len(inbox) : inbox[i].req = c
        /\ entryCode(calls[c].files, calls[c].code) = calls[c].code
        /\ entryCode(convertFileTreeToFiles(ctxTree, <<>>), calls[c].code) # calls[c].code

\* C40: a tool call that returns success:false leaves the shared state as it was: a tree
\* tool that fails has not invoked the tree-replacement callback and the workspace tree
\* is the one before the call; the step in which an install_package call fails adds no
\* name to the installed set.
C40_FailureHasNoEffect ==
    /\ [][last = NoCall /\ last'.tool # "none" /\ ~last'.ok
              => ~last'.updated /\ fileTree' = fileTree]_vars
    /\ [][\A c \in CallIds :
              /\ calls[c].status = "pending"
              /\ calls'[c].status # "pending" /\ ~calls'[c].ok
              => installedPackages' = installedPackages]_vars

\* a tree tool has just failed and an install_package call has ended in failure
C40_Witness ==
    /\ last.tool \in {"create_item", "move_item", "write_file"} /\ ~last.ok
    /\ \E c \in CallIds :
        calls[c].kind = "install" /\ calls[c].status # "pending" /\ ~calls[c].ok

====
